---- MODULE Spec2Model ----
(***************************************************************************)
(* Model of the invoice payment poller of cmswww (contractor-mgmt).       *)
(*                                                                         *)
(* The poller keeps an in-memory pool (polledPayments) of invoice tokens  *)
(* whose payment address is watched.  One background goroutine            *)
(* (checkForPayments) repeatedly copies the pool, reconciles every entry  *)
(* of the copy against the database and the block explorers, and deletes  *)
(* the tokens the pass decided to drop.  Request handlers insert into the *)
(* pool concurrently, an administrator may edit invoice statuses, and the *)
(* database may be closed at any moment.                                  *)
(***************************************************************************)
EXTENDS Integers, Sequences, FiniteSets, TLC

(***************************************************************************)
(* Bounds of the model.                                                    *)
(***************************************************************************)
StartTime == 1        \* the clock value when the process starts
MaxTime == 2          \* the clock runs from StartTime up to MaxTime
MaxPayments == 2      \* payment rows GetInvoices returns per invoice at startup

Tokens == {"abc", "def"}            \* invoice tokens known to the database
\* Poll expiry timestamps of payment rows: one already in the past when the
\* process starts, one that passes while it runs.
ExpiryValues == {StartTime - 1, StartTime}
\* The rows stored before the process started may also carry an expiry that
\* does not pass while it runs.
StoredExpiryValues == ExpiryValues \cup {MaxTime}

InvoiceStatusApproved == "approved"
InvoiceStatusPaid == "paid"
InvoiceStatuses == {InvoiceStatusApproved, InvoiceStatusPaid}

ErrNil == "nil"
ErrShutdown == "ErrShutdown"
ErrOther == "ErrOther"              \* any error that is not the sentinel

NoTx == ""                          \* the block explorers found nothing
TxID == "txid123"                   \* a transaction satisfies the payment

(***************************************************************************)
(* database.InvoicePayment rows and pool entries.  Every invoice has its  *)
(* own payment address; the amount and the earliest transaction time do   *)
(* not influence the control flow of the poller.                          *)
(***************************************************************************)
InvoicePayment(token, expiry) ==
    [Address |-> token, Amount |-> 500, TxNotBefore |-> 0, PollExpiry |-> expiry]

PaymentRows(token) == {InvoicePayment(token, e) : e \in ExpiryValues}
StoredPaymentRows(token) == {InvoicePayment(token, e) : e \in StoredExpiryValues}

polledPayment(invoicePayment) ==
    [address     |-> invoicePayment.Address,
     amount      |-> invoicePayment.Amount,
     txNotBefore |-> invoicePayment.TxNotBefore,
     pollExpiry  |-> invoicePayment.PollExpiry]

\* Sequences over S of length at most n.
SeqsUpTo(S, n) == UNION {[1..k -> S] : k \in 0..n}

VARIABLES
    now,              \* the wall clock (time.Now)
    shutdown,         \* cockroachdb.shutdown
    dbStatus,         \* database: the status of every invoice
    polledPayments,   \* cmswww.polledPayments, the pool
    mutexW,           \* cmswww RWMutex: the task holding the write lock
    mutexR,           \* cmswww RWMutex: the tasks holding the read lock
    pc,               \* position of the initialisation / poller goroutine
    hpc,              \* position of the request handler
    copy,             \* invoicePaymentsToCheck, the copy being processed
    todo,             \* keys of the copy the range loop has not visited
    cur,              \* the loop variable token
    invoice,          \* the invoice fetched for cur
    tx,               \* the transaction id the block explorers returned
    invoices,         \* the invoices GetInvoices returned at startup
    tokensToRemove,   \* the removal list of the pass
    initErr,          \* what initPaymentChecker returned
    dbErr,            \* the error of the poller's last database call
    outcome,          \* history: how the pass dealt with each entry
    queried,          \* history: tokens whose address the pass looked up
    written,          \* history: tokens the pass called UpdateInvoice for
    expiredSeen,      \* history: tokens whose expiry had passed when the
                      \* pass began to process them
    insertedSince,    \* history: tokens inserted since the copy was taken
    lastInsert,       \* history: the entry last inserted for a token and
                      \* not deleted since, until the next copy is taken
    settled           \* history: the poller settled the invoice, and no
                      \* other path has moved its status away from paid since

pollerVars == <<pc, copy, todo, cur, invoice, tx, invoices, tokensToRemove,
                initErr, dbErr, outcome, queried, written, expiredSeen>>
dbVars == <<shutdown, dbStatus>>
poolVars == <<polledPayments, mutexW, mutexR>>
histVars == <<insertedSince, lastInsert, settled>>
vars == <<now, dbVars, poolVars, pollerVars, hpc, histVars>>

NoToken == "none"
NoInvoice == [Token |-> NoToken, Status |-> InvoiceStatusApproved]
NoOutcome == [t \in Tokens |-> "none"]
EmptyPool == [t \in {} |-> 0]
NoInvoices == [t \in Tokens |-> <<>>]

Init ==
    /\ now = StartTime
    /\ shutdown = FALSE
    /\ dbStatus \in [Tokens -> InvoiceStatuses]
    /\ polledPayments = EmptyPool
    /\ mutexW = "none"
    /\ mutexR = {}
    /\ pc = "init"
    /\ hpc = "idle"
    /\ copy = EmptyPool
    /\ todo = {}
    /\ cur = NoToken
    /\ invoice = NoInvoice
    /\ tx = NoTx
    /\ invoices = NoInvoices
    /\ tokensToRemove = <<>>
    /\ initErr = ErrNil
    /\ dbErr = ErrNil
    /\ outcome = NoOutcome
    /\ queried = {}
    /\ written = {}
    /\ expiredSeen = {}
    /\ insertedSince = {}
    /\ lastInsert = EmptyPool
    /\ settled = [t \in Tokens |-> FALSE]

(***************************************************************************)
(* Helpers.                                                                *)
(***************************************************************************)
\* Variant: the comparison of the two times is the wrong way round.
pollHasExpired_Reversed(pollExpiry) == pollExpiry > now

\* time.Now().After(time.Unix(pollExpiry, 0))
pollHasExpired(pollExpiry) == now > pollExpiry

\* Variant: an entry already in the pool is not replaced.
addInvoiceForPolling_KeepExisting(pool, token, invoicePayment) ==
    [t \in (DOMAIN pool) \cup {token} |->
        IF t \in DOMAIN pool THEN pool[t] ELSE polledPayment(invoicePayment)]

\* c.polledPayments[token] = polledPayment{...}
addInvoiceForPolling(pool, token, invoicePayment) ==
    [t \in (DOMAIN pool) \cup {token} |->
        IF t = token THEN polledPayment(invoicePayment) ELSE pool[t]]

\* Variant: the delete loop stops one element short of the list.
DeleteTokens_SkipLast(pool, tokens) ==
    [t \in (DOMAIN pool) \ {tokens[i] : i \in 1..(Len(tokens) - 1)} |-> pool[t]]

\* delete(c.polledPayments, token) for every token of the list
DeleteTokens(pool, tokens) ==
    [t \in (DOMAIN pool) \ {tokens[i] : i \in DOMAIN tokens} |-> pool[t]]

\* Variant: the seeding loop does not skip the rows whose expiry has passed.
RECURSIVE AddPayments_KeepExpired(_, _, _)
AddPayments_KeepExpired(pool, token, rows) ==
    IF rows = <<>> THEN pool
    ELSE AddPayments_KeepExpired(
            addInvoiceForPolling(pool, token, InvoicePayment(token, Head(rows))),
            token, Tail(rows))

\* Variant: the loop over the payment rows of an invoice stops after the
\* first row it inserts.
RECURSIVE AddPayments_StopAtFirst(_, _, _)
AddPayments_StopAtFirst(pool, token, rows) ==
    IF rows = <<>> THEN pool
    ELSE IF now > Head(rows) THEN AddPayments_StopAtFirst(pool, token, Tail(rows))
    ELSE [t \in (DOMAIN pool) \cup {token} |->
            IF t = token THEN polledPayment(InvoicePayment(token, Head(rows)))
            ELSE pool[t]]

\* The inner loop of addInvoicesForPolling over one invoice's payment rows.
RECURSIVE AddPayments(_, _, _)
AddPayments(pool, token, rows) ==
    IF rows = <<>> THEN pool
    ELSE AddPayments(
            IF pollHasExpired(Head(rows)) THEN pool
            ELSE addInvoiceForPolling(pool, token, InvoicePayment(token, Head(rows))),
            token, Tail(rows))

\* The outer loop of addInvoicesForPolling over the invoices.
\* rowsOf maps every invoice token to the PollExpiry of its payment rows.
RECURSIVE AddInvoices(_, _, _)
AddInvoices(pool, rowsOf, tokens) ==
    IF tokens = {} THEN pool
    ELSE LET t == CHOOSE x \in tokens : TRUE
         IN AddInvoices(AddPayments(pool, t, rowsOf[t]), rowsOf, tokens \ {t})

\* What c.db.GetInvoices can return: every invoice with its payment rows.
InvoicesWithPayments == [Tokens -> SeqsUpTo(StoredExpiryValues, MaxPayments)]

\* The payment rows of one invoice the seeding loop does not skip.
UnexpiredRows(rows) == SelectSeq(rows, LAMBDA e : ~(now > e))

\* The last call of addInvoiceForPolling the seeding loop makes for every
\* token it inserts.
LastInserted(rowsOf) ==
    [t \in {x \in Tokens : UnexpiredRows(rowsOf[x]) # <<>>} |->
        LET rows == UnexpiredRows(rowsOf[t])
        IN polledPayment(InvoicePayment(t, rows[Len(rows)]))]

\* Variant: the error is compared with another sentinel of the package.
IsErrShutdown_WrongSentinel(err) == err = "ErrInvoiceNotFound"

\* Variant: every error is taken for the shutdown sentinel.
IsErrShutdown_AnyError(err) == err # ErrNil

\* err == database.ErrShutdown
IsErrShutdown(err) == err = ErrShutdown

\* Variant: the check of the fetched status is missing.
InvoiceAlreadyPaid_Skipped(status) == FALSE

\* invoice.Status == v1.InvoiceStatusPaid
InvoiceAlreadyPaid(status) == status = InvoiceStatusPaid

\* Variant: the save reports success without storing the record.
SaveInvoice_Lost(db, inv) == db

\* c.db.Save(invoice): the record of the invoice is overwritten.
SaveInvoice(db, inv) == [db EXCEPT ![inv.Token] = inv.Status]

\* sync.RWMutex
CanLock == mutexW = "none" /\ mutexR = {}
CanRLock == mutexW = "none"

\* The error a database call returns: the sentinel once the store is closed,
\* otherwise success or any other error.
DbErrors == IF shutdown THEN {ErrShutdown} ELSE {ErrNil, ErrOther}

Launched == pc \notin {"init", "seed", "seedloop", "initfailed"}
Running == Launched /\ pc # "stopped"

(***************************************************************************)
(* initPaymentChecker / addInvoicesForPolling.                            *)
(***************************************************************************)
\* c.Lock() at the head of addInvoicesForPolling
addInvoicesForPolling_Lock ==
    /\ pc = "init"
    /\ CanLock
    /\ mutexW' = "init"
    /\ pc' = "seed"
    /\ UNCHANGED <<tx, invoices, now, dbVars, polledPayments, mutexR, hpc, histVars,
                   copy, todo, cur, invoice, tokensToRemove, initErr, dbErr,
                   outcome, queried, written, expiredSeen>>

\* Variant: the error of GetInvoices is logged and not returned, and the
\* seeding goes on with no invoices.
addInvoicesForPolling_GetInvoices_ErrIgnored ==
    /\ pc = "seed"
    /\ \E err \in DbErrors :
        /\ initErr' = err
        /\ IF err = ErrNil
           THEN \E rows \in InvoicesWithPayments : invoices' = rows
           ELSE invoices' = NoInvoices
    /\ pc' = "seedloop"
    /\ UNCHANGED <<now, dbVars, poolVars, hpc, histVars,
                   copy, todo, cur, invoice, tx, tokensToRemove, dbErr,
                   outcome, queried, written, expiredSeen>>

\* c.db.GetInvoices(database.InvoicesRequest{...}), called with the write
\* lock held; on an error the deferred Unlock runs and the error is returned.
addInvoicesForPolling_GetInvoices ==
    /\ pc = "seed"
    /\ \E err \in DbErrors :
        /\ initErr' = err
        /\ IF err = ErrNil
           THEN /\ \E rows \in InvoicesWithPayments : invoices' = rows
                /\ pc' = "seedloop"
                /\ UNCHANGED mutexW
           ELSE /\ pc' = "initfailed"
                /\ mutexW' = "none"
                /\ UNCHANGED invoices
    /\ UNCHANGED <<now, dbVars, polledPayments, mutexR, hpc, histVars,
                   copy, todo, cur, invoice, tx, tokensToRemove, dbErr,
                   outcome, queried, written, expiredSeen>>

\* The seeding loop over the invoices and their payment rows, the deferred
\* Unlock, and the launch of the goroutine.
addInvoicesForPolling ==
    /\ pc = "seedloop"
    /\ polledPayments' = AddInvoices(polledPayments, invoices, Tokens)
    /\ lastInsert' = LastInserted(invoices)
    /\ invoices' = NoInvoices
    /\ mutexW' = "none"
    /\ pc' = "snapshot"
    /\ UNCHANGED <<now, dbVars, mutexR, hpc, insertedSince, settled,
                   copy, todo, cur, invoice, tx, tokensToRemove, initErr, dbErr,
                   outcome, queried, written, expiredSeen>>

(***************************************************************************)
(* checkForPayments: the poll cycle.                                       *)
(***************************************************************************)
\* c.RLock() in createPolledPaymentsCopy
createPolledPaymentsCopy_RLock ==
    /\ pc = "snapshot"
    /\ CanRLock
    /\ mutexR' = mutexR \cup {"poller"}
    /\ pc' = "copy"
    /\ UNCHANGED <<tx, invoices, now, dbVars, polledPayments, mutexW, hpc, histVars,
                   copy, todo, cur, invoice, tokensToRemove, initErr, dbErr,
                   outcome, queried, written, expiredSeen>>

\* The copy loop and the deferred RUnlock; the pass starts with an empty
\* removal list.
createPolledPaymentsCopy ==
    /\ pc = "copy"
    /\ copy' = polledPayments
    /\ todo' = DOMAIN polledPayments
    /\ tokensToRemove' = <<>>
    /\ mutexR' = mutexR \ {"poller"}
    /\ outcome' = NoOutcome
    /\ queried' = {}
    /\ written' = {}
    /\ expiredSeen' = {}
    /\ lastInsert' = EmptyPool
    /\ pc' = "range"
    /\ UNCHANGED <<tx, invoices, now, dbVars, polledPayments, mutexW, hpc, insertedSince, settled,
                   cur, invoice, initErr, dbErr>>

\* for token, polledPayment := range polledPayments: the next key, in any
\* order, or the end of the loop (return true, tokensToRemove).
RangeNext ==
    /\ pc = "range"
    /\ IF todo = {}
       THEN /\ pc' = "remove"
            /\ UNCHANGED <<cur, todo>>
       ELSE \E token \in todo :
            /\ cur' = token
            /\ todo' = todo \ {token}
            /\ pc' = "fetch"
    /\ UNCHANGED <<tx, invoices, now, dbVars, poolVars, hpc, histVars, copy, invoice,
                   tokensToRemove, initErr, dbErr, outcome, queried, written, expiredSeen>>

\* Variant: an invoice that cannot be fetched is dropped from polling.
GetInvoiceByToken_DropOnError ==
    /\ pc = "fetch"
    /\ \E err \in DbErrors :
        /\ dbErr' = err
        /\ IF IsErrShutdown(err)
           THEN /\ pc' = "stopped"
                /\ tokensToRemove' = <<>>
                /\ UNCHANGED <<cur, invoice, outcome>>
           ELSE IF err # ErrNil
           THEN /\ tokensToRemove' = Append(tokensToRemove, cur)
                /\ pc' = "range"
                /\ outcome' = [outcome EXCEPT ![cur] = "fetcherr"]
                /\ cur' = NoToken
                /\ UNCHANGED invoice
           ELSE IF InvoiceAlreadyPaid(dbStatus[cur])
           THEN /\ tokensToRemove' = Append(tokensToRemove, cur)
                /\ outcome' = [outcome EXCEPT ![cur] = "paid"]
                /\ pc' = "range"
                /\ cur' = NoToken
                /\ UNCHANGED invoice
           ELSE /\ invoice' = [Token |-> cur, Status |-> dbStatus[cur]]
                /\ pc' = "expiry"
                /\ UNCHANGED <<cur, tokensToRemove, outcome>>
    /\ expiredSeen' = IF now > copy[cur].pollExpiry
                      THEN expiredSeen \cup {cur} ELSE expiredSeen
    /\ UNCHANGED <<tx, invoices, now, dbVars, poolVars, hpc, histVars, copy, todo,
                   initErr, queried, written>>

\* Variant: the query is not restricted to the token asked for, and the
\* record of any invoice can come back.
GetInvoiceByToken_OtherRecord ==
    /\ pc = "fetch"
    /\ \E err \in DbErrors :
        /\ dbErr' = err
        /\ IF IsErrShutdown(err)
           THEN /\ pc' = "stopped"
                /\ tokensToRemove' = <<>>
                /\ UNCHANGED <<cur, invoice, outcome>>
           ELSE IF err # ErrNil
           THEN /\ pc' = "range"
                /\ outcome' = [outcome EXCEPT ![cur] = "fetcherr"]
                /\ cur' = NoToken
                /\ UNCHANGED <<invoice, tokensToRemove>>
           ELSE \E other \in Tokens :
                IF InvoiceAlreadyPaid(dbStatus[other])
                THEN /\ tokensToRemove' = Append(tokensToRemove, cur)
                     /\ outcome' = [outcome EXCEPT ![cur] = "paid"]
                     /\ pc' = "range"
                     /\ cur' = NoToken
                     /\ UNCHANGED invoice
                ELSE /\ invoice' = [Token |-> other, Status |-> dbStatus[other]]
                     /\ pc' = "expiry"
                     /\ UNCHANGED <<cur, tokensToRemove, outcome>>
    /\ expiredSeen' = IF now > copy[cur].pollExpiry
                      THEN expiredSeen \cup {cur} ELSE expiredSeen
    /\ UNCHANGED <<tx, invoices, now, dbVars, poolVars, hpc, histVars, copy, todo,
                   initErr, queried, written>>

\* c.db.GetInvoiceByToken(token), its error handling, and the check of the
\* fetched status against InvoiceStatusPaid.
GetInvoiceByToken ==
    /\ pc = "fetch"
    /\ \E err \in DbErrors :
        /\ dbErr' = err
        /\ IF IsErrShutdown(err)
           THEN \* The database is shutdown, so stop the thread.
                /\ pc' = "stopped"
                /\ tokensToRemove' = <<>>
                /\ UNCHANGED <<cur, invoice, outcome>>
           ELSE IF err # ErrNil
           THEN \* cannot fetch invoice by token: continue
                /\ pc' = "range"
                /\ outcome' = [outcome EXCEPT ![cur] = "fetcherr"]
                /\ cur' = NoToken
                /\ UNCHANGED <<invoice, tokensToRemove>>
           ELSE IF InvoiceAlreadyPaid(dbStatus[cur])
           THEN \* removing from polling, invoice already paid
                /\ tokensToRemove' = Append(tokensToRemove, cur)
                /\ outcome' = [outcome EXCEPT ![cur] = "paid"]
                /\ pc' = "range"
                /\ cur' = NoToken
                /\ UNCHANGED invoice
           ELSE /\ invoice' = [Token |-> cur, Status |-> dbStatus[cur]]
                /\ pc' = "expiry"
                /\ UNCHANGED <<cur, tokensToRemove, outcome>>
    /\ expiredSeen' = IF now > copy[cur].pollExpiry
                      THEN expiredSeen \cup {cur} ELSE expiredSeen
    /\ UNCHANGED <<tx, invoices, now, dbVars, poolVars, hpc, histVars, copy, todo,
                   initErr, queried, written>>

\* if pollHasExpired(polledPayment.pollExpiry): the clock is read here.
CheckPollExpiry ==
    /\ pc = "expiry"
    /\ IF pollHasExpired(copy[cur].pollExpiry)
       THEN \* removing from polling, poll has expired
            /\ tokensToRemove' = Append(tokensToRemove, invoice.Token)
            /\ outcome' = [outcome EXCEPT ![cur] = "expired"]
            /\ pc' = "range"
            /\ cur' = NoToken
            /\ invoice' = NoInvoice
       ELSE /\ pc' = "oracle"
            /\ UNCHANGED <<cur, invoice, tokensToRemove, outcome>>
    /\ UNCHANGED <<tx, invoices, now, dbVars, poolVars, hpc, histVars, copy, todo,
                   initErr, dbErr, queried, written, expiredSeen>>

\* Variant: the test of the returned transaction id is missing.
TxFound_Always(txid) == TRUE

\* if tx != ""
TxFound(txid) == txid # NoTx

\* What util.FetchTxWithBlockExplorers can return.
TxResults == {"err", NoTx, TxID}

\* util.FetchTxWithBlockExplorers(address, amount, txNotBefore, minConf): the
\* explorers fail, report no transaction, or report one.
FetchTxWithBlockExplorers ==
    /\ pc = "oracle"
    /\ queried' = queried \cup {cur}
    /\ \E res \in TxResults :
        IF res = "err"
        THEN \* cannot fetch tx: continue
             /\ tx' = NoTx
             /\ pc' = "range"
             /\ outcome' = [outcome EXCEPT ![cur] = "oracleerr"]
             /\ cur' = NoToken
             /\ invoice' = NoInvoice
        ELSE /\ tx' = res
             /\ IF TxFound(res)
                THEN /\ invoice' = [invoice EXCEPT !.Status = InvoiceStatusPaid]
                     /\ pc' = "update"
                     /\ UNCHANGED <<cur, outcome>>
                ELSE /\ pc' = "gap"
                     /\ outcome' = [outcome EXCEPT ![cur] = "unsat"]
                     /\ cur' = NoToken
                     /\ invoice' = NoInvoice
    /\ UNCHANGED <<now, dbVars, poolVars, hpc, histVars, copy, todo, invoices,
                   tokensToRemove, initErr, dbErr, written, expiredSeen>>

\* Variant: the continue after a failed UpdateInvoice is missing, and the
\* token is put on the removal list although nothing was saved.
UpdateInvoice_NoContinue ==
    /\ pc = "update"
    /\ written' = written \cup {cur}
    /\ tx' = NoTx
    /\ \E err \in DbErrors :
        /\ dbErr' = err
        /\ IF IsErrShutdown(err)
           THEN /\ pc' = "stopped"
                /\ tokensToRemove' = <<>>
                /\ UNCHANGED <<dbStatus, cur, invoice, outcome, settled>>
           ELSE IF err # ErrNil
           THEN /\ tokensToRemove' = Append(tokensToRemove, cur)
                /\ pc' = "gap"
                /\ outcome' = [outcome EXCEPT ![cur] = "updateerr"]
                /\ cur' = NoToken
                /\ invoice' = NoInvoice
                /\ UNCHANGED <<dbStatus, settled>>
           ELSE /\ dbStatus' = SaveInvoice(dbStatus, invoice)
                /\ settled' = [settled EXCEPT ![cur] = TRUE]
                /\ tokensToRemove' = Append(tokensToRemove, cur)
                /\ outcome' = [outcome EXCEPT ![cur] = "settled"]
                /\ pc' = "gap"
                /\ cur' = NoToken
                /\ invoice' = NoInvoice
    /\ UNCHANGED <<invoices, lastInsert, now, shutdown, poolVars, hpc, insertedSince,
                   copy, todo, initErr, queried, expiredSeen>>

\* Variant: a shutdown error leaves the loop with a break, and the driver
\* goes on to apply the removal list gathered so far.
UpdateInvoice_BreakOnShutdown ==
    /\ pc = "update"
    /\ written' = written \cup {cur}
    /\ tx' = NoTx
    /\ \E err \in DbErrors :
        /\ dbErr' = err
        /\ IF IsErrShutdown(err)
           THEN /\ pc' = "remove"
                /\ cur' = NoToken
                /\ invoice' = NoInvoice
                /\ UNCHANGED <<dbStatus, tokensToRemove, outcome, settled>>
           ELSE IF err # ErrNil
           THEN /\ pc' = "range"
                /\ outcome' = [outcome EXCEPT ![cur] = "updateerr"]
                /\ cur' = NoToken
                /\ invoice' = NoInvoice
                /\ UNCHANGED <<dbStatus, tokensToRemove, settled>>
           ELSE /\ dbStatus' = SaveInvoice(dbStatus, invoice)
                /\ settled' = [settled EXCEPT ![cur] = TRUE]
                /\ tokensToRemove' = Append(tokensToRemove, cur)
                /\ outcome' = [outcome EXCEPT ![cur] = "settled"]
                /\ pc' = "gap"
                /\ cur' = NoToken
                /\ invoice' = NoInvoice
    /\ UNCHANGED <<invoices, lastInsert, now, shutdown, poolVars, hpc, insertedSince,
                   copy, todo, initErr, queried, expiredSeen>>

\* c.db.UpdateInvoice(invoice) and its error handling.
UpdateInvoice ==
    /\ pc = "update"
    /\ written' = written \cup {cur}
    /\ tx' = NoTx
    /\ \E err \in DbErrors :
        /\ dbErr' = err
        /\ IF IsErrShutdown(err)
           THEN \* The database is shutdown, so stop the thread.
                /\ pc' = "stopped"
                /\ tokensToRemove' = <<>>
                /\ UNCHANGED <<dbStatus, cur, invoice, outcome, settled>>
           ELSE IF err # ErrNil
           THEN \* cannot update invoice: continue
                /\ pc' = "range"
                /\ outcome' = [outcome EXCEPT ![cur] = "updateerr"]
                /\ cur' = NoToken
                /\ invoice' = NoInvoice
                /\ UNCHANGED <<dbStatus, tokensToRemove, settled>>
           ELSE /\ dbStatus' = SaveInvoice(dbStatus, invoice)
                /\ settled' = [settled EXCEPT ![cur] = TRUE]
                \* Remove this invoice from polling.
                /\ tokensToRemove' = Append(tokensToRemove, cur)
                /\ outcome' = [outcome EXCEPT ![cur] = "settled"]
                /\ pc' = "gap"
                /\ cur' = NoToken
                /\ invoice' = NoInvoice
    /\ UNCHANGED <<invoices, lastInsert, now, shutdown, poolVars, hpc, insertedSince,
                   copy, todo, initErr, queried, expiredSeen>>

\* time.Sleep(pollCheckGap) at the end of the loop body.
SleepAfterEntry ==
    /\ pc = "gap"
    /\ pc' = "range"
    /\ tx' = NoTx
    /\ UNCHANGED <<invoices, now, dbVars, poolVars, hpc, histVars, copy, todo, cur,
                   invoice, tokensToRemove, initErr, dbErr, outcome, queried,
                   written, expiredSeen>>

\* c.Lock() in removeInvoicesFromPolling
removeInvoicesFromPolling_Lock ==
    /\ pc = "remove"
    /\ CanLock
    /\ mutexW' = "poller"
    /\ pc' = "delete"
    /\ UNCHANGED <<tx, invoices, now, dbVars, polledPayments, mutexR, hpc, histVars,
                   copy, todo, cur, invoice, tokensToRemove, initErr, dbErr,
                   outcome, queried, written, expiredSeen>>

\* The delete loop and the deferred Unlock.
removeInvoicesFromPolling ==
    /\ pc = "delete"
    /\ polledPayments' = DeleteTokens(polledPayments, tokensToRemove)
    /\ mutexW' = "none"
    /\ lastInsert' = DeleteTokens(lastInsert, tokensToRemove)
    /\ pc' = "sleep"
    /\ UNCHANGED <<tx, invoices, now, dbVars, mutexR, hpc, insertedSince, settled,
                   copy, todo, cur, invoice, tokensToRemove, initErr, dbErr,
                   outcome, queried, written, expiredSeen>>

\* time.Sleep(pollCheckGap) at the end of a cycle, then the next iteration.
SleepAfterCycle ==
    /\ pc = "sleep"
    /\ pc' = "snapshot"
    /\ insertedSince' = {}
    /\ UNCHANGED <<tx, invoices, lastInsert, now, dbVars, poolVars, hpc, settled, copy, todo, cur,
                   invoice, tokensToRemove, initErr, dbErr, outcome, queried,
                   written, expiredSeen>>

(***************************************************************************)
(* The environment of the poller.                                          *)
(***************************************************************************)
\* The positions of the poller between taking a copy and deleting the
\* tokens of that pass.
InCycle == pc \in {"range", "fetch", "expiry", "oracle", "update", "gap",
                   "remove", "delete"}

\* Variant: the handler's insert does not take the lock.
addInvoiceForPollingLock_Lock_Missing ==
    /\ Launched
    /\ hpc = "idle"
    /\ hpc' = "locked"
    /\ UNCHANGED <<now, dbVars, poolVars, pollerVars, histVars>>

\* c.Lock() in addInvoiceForPollingLock, called by a request handler once the
\* server is up.
addInvoiceForPollingLock_Lock ==
    /\ Launched
    /\ hpc = "idle"
    /\ CanLock
    /\ mutexW' = "handler"
    /\ hpc' = "locked"
    /\ UNCHANGED <<now, dbVars, polledPayments, mutexR, pollerVars, histVars>>

\* Variant: the copy the pass works on is the pool's own map, so that an
\* insert shows through.
addInvoiceForPollingLock_Aliased ==
    /\ hpc = "locked"
    /\ \E token \in Tokens : \E invoicePayment \in PaymentRows(token) :
        /\ polledPayments' = addInvoiceForPolling(polledPayments, token, invoicePayment)
        /\ copy' = polledPayments'
        /\ insertedSince' = IF InCycle THEN insertedSince \cup {token}
                            ELSE insertedSince
        /\ lastInsert' = [t \in (DOMAIN lastInsert) \cup {token} |->
                            IF t = token THEN polledPayment(invoicePayment)
                            ELSE lastInsert[t]]
    /\ mutexW' = "none"
    /\ hpc' = "idle"
    /\ UNCHANGED <<now, dbVars, mutexR, pc, todo, cur, invoice, tx, invoices,
                   tokensToRemove, initErr, dbErr, outcome, queried, written,
                   expiredSeen, settled>>

\* c.addInvoiceForPolling(token, invoicePayment) and the deferred Unlock.
addInvoiceForPollingLock ==
    /\ hpc = "locked"
    /\ \E token \in Tokens : \E invoicePayment \in PaymentRows(token) :
        /\ polledPayments' = addInvoiceForPolling(polledPayments, token, invoicePayment)
        /\ insertedSince' = IF InCycle THEN insertedSince \cup {token}
                            ELSE insertedSince
        /\ lastInsert' = [t \in (DOMAIN lastInsert) \cup {token} |->
                            IF t = token THEN polledPayment(invoicePayment)
                            ELSE lastInsert[t]]
    /\ mutexW' = "none"
    /\ hpc' = "idle"
    /\ UNCHANGED <<now, dbVars, mutexR, pollerVars, settled>>

\* Another path (an administrator's status edit) saves a new status.
SetInvoiceStatus ==
    /\ ~shutdown
    /\ \E token \in Tokens : \E status \in InvoiceStatuses \ {dbStatus[token]} :
        /\ dbStatus' = [dbStatus EXCEPT ![token] = status]
        /\ settled' = [settled EXCEPT ![token] =
                            @ /\ dbStatus[token] # InvoiceStatusPaid]
    /\ UNCHANGED <<now, shutdown, poolVars, pollerVars, hpc, insertedSince, lastInsert>>

\* cockroachdb.Close: every later call returns ErrShutdown.
Close ==
    /\ ~shutdown
    /\ shutdown' = TRUE
    /\ UNCHANGED <<now, dbStatus, poolVars, pollerVars, hpc, histVars>>

\* Time passes.
Tick ==
    /\ now < MaxTime
    /\ now' = now + 1
    /\ UNCHANGED <<dbVars, poolVars, pollerVars, hpc, histVars>>

checkForInvoicePayments ==
    \/ RangeNext
    \/ GetInvoiceByToken
    \/ CheckPollExpiry
    \/ FetchTxWithBlockExplorers
    \/ UpdateInvoice
    \/ SleepAfterEntry

checkForPayments ==
    \/ createPolledPaymentsCopy_RLock
    \/ createPolledPaymentsCopy
    \/ checkForInvoicePayments
    \/ removeInvoicesFromPolling_Lock
    \/ removeInvoicesFromPolling
    \/ SleepAfterCycle

initPaymentChecker ==
    \/ addInvoicesForPolling_Lock
    \/ addInvoicesForPolling_GetInvoices
    \/ addInvoicesForPolling

Next ==
    \/ initPaymentChecker
    \/ checkForPayments
    \/ addInvoiceForPollingLock_Lock
    \/ addInvoiceForPollingLock
    \/ SetInvoiceStatus
    \/ Close
    \/ Tick

Spec == Init /\ [][Next]_vars

\* The goroutine of the driver is scheduled whenever it can run, the mutex
\* does not starve it, and a handler that took the lock releases it.
FairSpec ==
    /\ Spec
    /\ SF_vars(checkForPayments)
    /\ WF_vars(addInvoiceForPollingLock)

(***************************************************************************)
(* Steps of the poller named by the properties below.                      *)
(***************************************************************************)
\* The pass just fetched the invoice of cur without an error.
FetchedOK == pc = "fetch" /\ pc' # "fetch" /\ dbErr' = ErrNil
\* The pass just evaluated the expiry of cur's entry.
ExpiryChecked == pc = "expiry" /\ pc' # "expiry"
\* UpdateInvoice just returned without an error.
UpdatedOK == pc = "update" /\ pc' = "gap" /\ dbErr' = ErrNil
\* A database call of the pass just returned the shutdown sentinel.
GotShutdown == pc \in {"fetch", "update"} /\ pc' # pc /\ dbErr' = ErrShutdown
\* The driver just applied the removal list of a completed pass.
RemovalsApplied == pc = "delete" /\ pc' = "sleep"
\* The cycle just ended: its removals were applied, or the driver returned.
CycleEnded == InCycle /\ ~InCycle'

InList(token, list) == \E i \in DOMAIN list : list[i] = token

(***************************************************************************)
(* C1 (as amended).  When the block explorers report a transaction for an *)
(* entry of the copy and UpdateInvoice succeeds, the invoice's status in  *)
(* the database becomes paid and the token is put on the removal list;    *)
(* when the pass completes and the driver applies the list, the token is  *)
(* deleted from the pool.  (A pass that a later entry aborts with         *)
(* ErrShutdown applies no removal.)                                       *)
(***************************************************************************)
C1_SettledPaidAndRemoved ==
    [][ /\ UpdatedOK =>
            /\ dbStatus'[cur] = InvoiceStatusPaid
            /\ InList(cur, tokensToRemove')
            /\ outcome'[cur] = "settled"
        /\ RemovalsApplied =>
            \A t \in Tokens :
                outcome[t] = "settled" => t \notin DOMAIN polledPayments'
      ]_vars

\* A settled invoice whose token the driver has deleted from the pool.
C1_Witness ==
    /\ pc = "sleep"
    /\ \E t \in Tokens :
        /\ outcome[t] = "settled"
        /\ t \in queried /\ t \in written
        /\ dbStatus[t] = InvoiceStatusPaid
        /\ t \in DOMAIN copy
        /\ t \notin DOMAIN polledPayments

(***************************************************************************)
(* C1 as stated: in any poll cycle, an entry whose transaction was found  *)
(* and whose UpdateInvoice succeeded has status paid and its token is out *)
(* of the pool when the cycle ends, however the cycle ends.               *)
(***************************************************************************)
C1_Original ==
    [][ /\ UpdatedOK => dbStatus'[cur] = InvoiceStatusPaid
        /\ CycleEnded =>
            \A t \in Tokens :
                outcome'[t] = "settled" => t \notin DOMAIN polledPayments'
      ]_vars

(***************************************************************************)
(* C2 (as amended).  When the invoice of an entry of the copy is fetched  *)
(* with status paid, the token is put on the removal list at once, the    *)
(* pass neither queries the block explorers nor calls UpdateInvoice for   *)
(* that entry, and the token is deleted from the pool when the pass       *)
(* completes and the driver applies the list.                             *)
(***************************************************************************)
C2_AlreadyPaidRemovedUnqueried ==
    [][ /\ (FetchedOK /\ dbStatus[cur] = InvoiceStatusPaid) =>
            /\ pc' = "range"
            /\ InList(cur, tokensToRemove')
            /\ outcome'[cur] = "paid"
        /\ \A t \in Tokens :
            outcome'[t] = "paid" => (t \notin queried' /\ t \notin written')
        /\ RemovalsApplied =>
            \A t \in Tokens :
                outcome[t] = "paid" => t \notin DOMAIN polledPayments'
      ]_vars

\* An invoice found already paid whose token the driver has deleted.
C2_Witness ==
    /\ pc = "sleep"
    /\ \E t \in Tokens :
        /\ outcome[t] = "paid"
        /\ t \in DOMAIN copy
        /\ t \notin queried /\ t \notin written
        /\ InList(t, tokensToRemove)
        /\ t \notin DOMAIN polledPayments

(***************************************************************************)
(* C2 as stated: in any poll cycle, an entry whose invoice was fetched    *)
(* already paid is out of the pool when the cycle ends, however the cycle *)
(* ends, and was neither queried nor written.                             *)
(***************************************************************************)
C2_Original ==
    [][ /\ \A t \in Tokens :
            outcome'[t] = "paid" => (t \notin queried' /\ t \notin written')
        /\ CycleEnded =>
            \A t \in Tokens :
                outcome'[t] = "paid" => t \notin DOMAIN polledPayments'
      ]_vars

C4_ShutdownStopsForever ==
    [][ /\ GotShutdown => pc' = "stopped"
        /\ pc = "stopped" =>
            /\ UNCHANGED pollerVars
            /\ UNCHANGED dbStatus
            /\ mutexW' # "poller" /\ "poller" \notin mutexR'
            /\ DOMAIN polledPayments \subseteq DOMAIN polledPayments'
      ]_vars

\* The driver stopped on the sentinel with entries of the copy unvisited.
C4_Witness ==
    /\ pc = "stopped"
    /\ dbErr = ErrShutdown
    /\ shutdown
    /\ todo # {}
    /\ todo \subseteq DOMAIN polledPayments

(***************************************************************************)
(* C5.  The driver stops only on ErrShutdown from GetInvoiceByToken or    *)
(* UpdateInvoice of a closed database: no other error, no result of the   *)
(* block explorers, no empty pool and no insert stops it, and while it    *)
(* runs it always has a next step unless a handler holds the lock.        *)
(***************************************************************************)
C5_StopsOnlyOnShutdown ==
    /\ [][ (pc # "stopped" /\ pc' = "stopped") =>
                (shutdown /\ GotShutdown) ]_vars
    /\ [](pc = "stopped" => (shutdown /\ dbErr = ErrShutdown))
    /\ [](Running => (ENABLED checkForPayments \/ mutexW = "handler"))

\* The driver completed a cycle in which a database call failed with another
\* error, the block explorers failed, and a handler inserted; the database
\* is open and the driver goes on.
C5_Witness ==
    /\ ~shutdown
    /\ pc = "sleep"
    /\ \E t \in Tokens : outcome[t] \in {"fetcherr", "updateerr"}
    /\ \E t \in Tokens : outcome[t] = "oracleerr"
    /\ insertedSince # {}
    /\ ENABLED SleepAfterCycle

(***************************************************************************)
(* C6.  Once the database is closed, a running driver eventually stops.   *)
(***************************************************************************)
C6_ClosedStoreStopsPoller == (shutdown /\ Running) ~> (pc = "stopped")

(***************************************************************************)
(* C7.  A token inserted by a handler while a cycle is in progress is in  *)
(* the pool once the removals of that cycle have been applied.            *)
(***************************************************************************)
C7_InsertDuringCycleNotLost ==
    pc = "sleep" => \A t \in insertedSince : t \in DOMAIN polledPayments

(***************************************************************************)
(* C8.  The poller never completes an UpdateInvoice to paid for an        *)
(* invoice whose status in the database is already paid.                  *)
(***************************************************************************)
C8_NoSettlementOfPaidInvoice ==
    [][UpdatedOK => dbStatus[cur] # InvoiceStatusPaid]_vars

(***************************************************************************)
(* C9.  For every token the poller completes at most one UpdateInvoice to *)
(* paid as long as no other path moves the status away from paid, and an  *)
(* invoice the poller settled is paid in the database.                    *)
(***************************************************************************)
C9_SettledAtMostOnce ==
    /\ [][UpdatedOK => (~settled[cur] /\ dbStatus'[cur] = InvoiceStatusPaid)]_vars
    /\ [](\A t \in Tokens : settled[t] => dbStatus[t] = InvoiceStatusPaid)

\* An invoice the poller settled came back into the pool, and the next pass
\* found it paid and left it alone.
C9_Witness ==
    /\ pc = "sleep"
    /\ \E t \in Tokens :
        /\ settled[t]
        /\ t \in DOMAIN copy
        /\ outcome[t] = "paid"
        /\ t \notin written

C11_RemovedOnlyWhenPaidExpiredOrSettled ==
    [][\A t \in DOMAIN polledPayments :
          t \notin DOMAIN polledPayments' =>
              /\ RemovalsApplied
              /\ outcome[t] \in {"paid", "expired", "settled"}]_vars

\* The removals of a pass were applied: one token was dropped, and a token
\* whose reconciliation failed with a transient error is still in the pool.
C11_Witness ==
    /\ pc = "sleep"
    /\ \E t \in DOMAIN copy :
        /\ outcome[t] \in {"fetcherr", "oracleerr", "updateerr"}
        /\ t \in DOMAIN polledPayments
    /\ \E u \in DOMAIN copy :
        /\ outcome[u] \in {"paid", "expired", "settled"}
        /\ u \notin DOMAIN polledPayments

\* The outcomes of a reconciliation that failed with an error other than the
\* shutdown sentinel.
TransientOutcomes == {"fetcherr", "oracleerr", "updateerr"}

(***************************************************************************)
(* C12.  When the fetch of the invoice, the lookup of its address or the  *)
(* save of the invoice fails with an error that is not the shutdown       *)
(* sentinel, the failing step changes no status in the database, the      *)
(* entry is still in the pool when the removals of the pass have been     *)
(* applied, and the next copy the driver takes holds the token again, to  *)
(* be visited by the next pass; the poller keeps no count of the retries. *)
(***************************************************************************)
C12_TransientFailureRetried ==
    /\ [][(pc \in {"fetch", "oracle", "update"} /\ cur' = NoToken
              /\ outcome'[cur] \in TransientOutcomes)
            => (dbStatus' = dbStatus /\ tokensToRemove' = tokensToRemove)]_vars
    /\ [][RemovalsApplied =>
            \A t \in DOMAIN copy :
                outcome[t] \in TransientOutcomes => t \in DOMAIN polledPayments']_vars
    /\ [][(pc = "copy" /\ pc' = "range") =>
            \A t \in Tokens :
                outcome[t] \in TransientOutcomes => t \in todo']_vars

\* A cycle is over in which the save of one invoice and the fetch or the
\* lookup of the other failed; both tokens wait in the pool for the next copy
\* and the database is open.
C12_Witness ==
    /\ pc = "snapshot"
    /\ ~shutdown
    /\ \E t \in DOMAIN polledPayments : outcome[t] = "updateerr"
    /\ \E u \in DOMAIN polledPayments : outcome[u] \in {"fetcherr", "oracleerr"}
    /\ ENABLED createPolledPaymentsCopy_RLock

(***************************************************************************)
(* C13.  When the block explorers return the empty transaction id and no  *)
(* error for an entry whose invoice was fetched unpaid and whose expiry   *)
(* had not passed, the pass calls no UpdateInvoice for the token, leaves  *)
(* every status in the database and the removal list as they were, and    *)
(* the entry is still in the pool after the removals of the pass.         *)
(***************************************************************************)
C13_NoTxRetainsEntryWritesNothing ==
    /\ [][(pc = "oracle" /\ pc' \in {"update", "gap"} /\ tx' = NoTx)
            => /\ pc' = "gap"
               /\ outcome'[cur] = "unsat"
               /\ dbStatus' = dbStatus
               /\ tokensToRemove' = tokensToRemove
               /\ polledPayments' = polledPayments]_vars
    /\ [](pc = "update" => tx # NoTx)
    /\ [][RemovalsApplied =>
            \A t \in DOMAIN copy :
                outcome[t] = "unsat" =>
                    (t \in DOMAIN polledPayments' /\ t \notin written)]_vars

\* The explorers found no transaction for an unpaid, unexpired entry; the
\* removals of the pass were applied and the entry is still in the pool.
C13_Witness ==
    /\ pc = "sleep"
    /\ \E t \in DOMAIN copy :
        /\ outcome[t] = "unsat"
        /\ t \in queried
        /\ dbStatus[t] = InvoiceStatusApproved
        /\ ~(now > copy[t].pollExpiry)
        /\ t \in DOMAIN polledPayments
        /\ polledPayments[t] = copy[t]

(***************************************************************************)
(* C14.  The entry last inserted for a token, by the seeding loop         *)
(* (addInvoiceForPolling under the caller's lock) or by a handler         *)
(* (addInvoiceForPollingLock), is the entry of that token in the pool as  *)
(* long as no removal deletes the token, and the next copy the driver     *)
(* takes maps the token to exactly that entry, whatever inserts of other  *)
(* tokens came in between.                                                *)
(***************************************************************************)
C14_InsertedEntryInNextCopy ==
    /\ [](\A t \in DOMAIN lastInsert :
            t \in DOMAIN polledPayments /\ polledPayments[t] = lastInsert[t])
    /\ [][(pc = "copy" /\ pc' = "range") =>
            \A t \in DOMAIN lastInsert :
                t \in DOMAIN copy' /\ copy'[t] = lastInsert[t]]_vars

\* The driver holds the read lock and is about to copy the pool; since the
\* last copy a handler inserted an entry for one token (already expired,
\* which the seeding loop never inserts) and the seeding loop or a handler
\* inserted a different entry for the other token.
C14_Witness ==
    /\ pc = "copy"
    /\ "poller" \in mutexR
    /\ DOMAIN lastInsert = Tokens
    /\ \E t \in Tokens : \E u \in Tokens \ {t} :
        /\ lastInsert[t].pollExpiry = StartTime - 1
        /\ lastInsert[u].pollExpiry # StartTime - 1

(***************************************************************************)
(* C15 (as amended).  When GetInvoices succeeds at startup, the seeding   *)
(* loop leaves the pool with one entry for every invoice that has at      *)
(* least one payment row whose expiry has not passed, built from the last *)
(* such row in the order the store returned them, and with no entry for   *)
(* any other invoice; no entry is built from a row whose expiry has       *)
(* passed.  The pool is keyed by the invoice token, so the earlier        *)
(* unexpired rows of an invoice are overwritten by the later ones.        *)
(***************************************************************************)
C15_SeededLastUnexpiredRowPerInvoice ==
    [][(pc = "seedloop" /\ pc' = "snapshot") =>
        /\ DOMAIN polledPayments' =
              {t \in Tokens : \E i \in DOMAIN invoices[t] : ~(now > invoices[t][i])}
        /\ \A t \in DOMAIN polledPayments' :
              \E i \in DOMAIN invoices[t] :
                  /\ ~(now > invoices[t][i])
                  /\ polledPayments'[t] = polledPayment(InvoicePayment(t, invoices[t][i]))
                  /\ \A j \in DOMAIN invoices[t] : j > i => now > invoices[t][j]]_vars

\* GetInvoices returned, under the write lock, an invoice with two payment
\* rows that are both unexpired and differ, and an invoice with an expired
\* row; the seeding loop is about to run over them.
C15_Witness ==
    /\ pc = "seedloop"
    /\ initErr = ErrNil
    /\ polledPayments = EmptyPool
    /\ \E t \in Tokens : \E u \in Tokens \ {t} :
        /\ Len(invoices[t]) = 2
        /\ invoices[t][1] # invoices[t][2]
        /\ \A i \in DOMAIN invoices[t] : ~(now > invoices[t][i])
        /\ \E i \in DOMAIN invoices[u] : now > invoices[u][i]
    /\ ENABLED addInvoicesForPolling

(***************************************************************************)
(* C15 as stated: after the seeding loop the pool holds an entry for      *)
(* every payment row returned whose expiry has not passed, and no entry   *)
(* built from a row whose expiry has passed.                              *)
(***************************************************************************)
C15_Original ==
    [][(pc = "seedloop" /\ pc' = "snapshot") =>
        /\ \A t \in Tokens : \A i \in DOMAIN invoices[t] :
              ~(now > invoices[t][i]) =>
                  /\ t \in DOMAIN polledPayments'
                  /\ polledPayments'[t] = polledPayment(InvoicePayment(t, invoices[t][i]))
        /\ \A t \in DOMAIN polledPayments' :
              ~(now > polledPayments'[t].pollExpiry)]_vars

(***************************************************************************)
(* C16.  Once the expiry of an entry of the pool has passed and the       *)
(* driver is running, the entry is eventually removed from the pool (or   *)
(* the driver stops on a shutdown), even when every fetch of the invoice  *)
(* fails with an error that is not the shutdown sentinel.                 *)
(***************************************************************************)
C16_ExpiredEntryEventuallyRemoved ==
    \A t \in Tokens :
        (Running /\ t \in DOMAIN polledPayments
            /\ now > polledPayments[t].pollExpiry)
        ~> (t \notin DOMAIN polledPayments \/ pc = "stopped")

(***************************************************************************)
(* C17.  While a call to the database (GetInvoices, GetInvoiceByToken,    *)
(* UpdateInvoice) or to the block explorers is the next thing the         *)
(* initialisation or the poller does, that task holds neither the write   *)
(* lock nor the read lock of the pool.                                    *)
(***************************************************************************)
C17_NoLockAcrossNetworkCall ==
    pc \in {"seed", "fetch", "oracle", "update"} =>
        (mutexW \notin {"init", "poller"} /\ "poller" \notin mutexR)

(***************************************************************************)
(* C18.  When GetInvoiceByToken or UpdateInvoice returns the shutdown     *)
(* sentinel, the pass ends with its removal list discarded and the pool   *)
(* untouched; from then on no token is deleted, so the pool is the copy   *)
(* the aborted pass worked on, overwritten only by the entries inserted   *)
(* since that copy was taken, including the tokens the pass had found     *)
(* paid, expired or settled.                                               *)
(***************************************************************************)
C18_AbortedPassWritesNothingBack ==
    /\ [][GotShutdown =>
            /\ pc' = "stopped"
            /\ tokensToRemove' = <<>>
            /\ polledPayments' = polledPayments]_vars
    /\ [](pc = "stopped" =>
            /\ tokensToRemove = <<>>
            /\ polledPayments =
                  [t \in (DOMAIN copy) \cup (DOMAIN lastInsert) |->
                      IF t \in DOMAIN lastInsert THEN lastInsert[t] ELSE copy[t]])

\* The pass found one invoice paid, expired or settled and was then aborted
\* by a shutdown error on the other entry: the driver has stopped, and the
\* token it had listed for removal is still in the pool with the entry of
\* the copy, no handler having inserted it again.
C18_Witness ==
    /\ pc = "stopped"
    /\ dbErr = ErrShutdown
    /\ \E t \in DOMAIN copy :
        /\ outcome[t] \in {"paid", "expired", "settled"}
        /\ t \notin DOMAIN lastInsert
        /\ t \in DOMAIN polledPayments
        /\ polledPayments[t] = copy[t]

(***************************************************************************)
(* C19.  The pool is written only by the seeding loop, the delete loop    *)
(* and a handler's insert, each holding the write lock of the one         *)
(* RWMutex, and it is copied only with the read lock held; while a task   *)
(* holds the write lock no task holds the read lock, and no two of these  *)
(* critical sections are open at the same time.                           *)
(***************************************************************************)
C19_PoolAccessUnderLock ==
    /\ [](mutexW # "none" => mutexR = {})
    /\ []((mutexW = "init") <=> (pc \in {"seed", "seedloop"}))
    /\ []((mutexW = "poller") <=> (pc = "delete"))
    /\ []((mutexW = "handler") <=> (hpc = "locked"))
    /\ []((mutexR = {"poller"}) <=> (pc = "copy"))
    /\ [](mutexR \subseteq {"poller"})
    /\ [](hpc = "locked" => pc \notin {"seed", "seedloop", "copy", "delete"})
    /\ [][polledPayments' # polledPayments =>
            \/ (pc = "seedloop" /\ mutexW = "init")
            \/ (pc = "delete" /\ mutexW = "poller")
            \/ (hpc = "locked" /\ hpc' = "idle" /\ mutexW = "handler")]_vars
    /\ [][copy' # copy => (pc = "copy" /\ mutexR = {"poller"})]_vars

\* The driver holds the read lock to copy a pool that is not empty, and a
\* handler that wants to insert cannot take the write lock.
C19_Witness ==
    /\ pc = "copy"
    /\ mutexR = {"poller"}
    /\ polledPayments # EmptyPool
    /\ hpc = "idle"
    /\ ~ENABLED addInvoiceForPollingLock_Lock

(***************************************************************************)
(* C20.  The copy step gives the pass every key and value of the pool,    *)
(* and from then on the copy changes only when the next copy is taken:    *)
(* neither a handler's insert nor the delete loop changes it.  The steps  *)
(* of the pass (the range loop, the fetch, the expiry check, the lookup,  *)
(* the save, the sleeps, taking the lock for the removal) leave the pool  *)
(* as it is; the driver changes the pool only in the delete loop.         *)
(***************************************************************************)
C20_CopyIndependentPassLeavesPool ==
    /\ [][(pc = "copy" /\ pc' = "range") => copy' = polledPayments]_vars
    /\ [][copy' # copy => (pc = "copy" /\ pc' = "range")]_vars
    /\ [][((hpc = "locked" /\ hpc' = "idle") \/ RemovalsApplied) => copy' = copy]_vars
    /\ [][(Launched /\ pc' # pc /\ ~RemovalsApplied)
            => polledPayments' = polledPayments]_vars

\* The pass is over and its removal list is not empty; since the copy was
\* taken a handler inserted a token the copy does not hold, and every
\* entry of the copy is still in the pool as copied.
C20_Witness ==
    /\ pc = "remove"
    /\ tokensToRemove # <<>>
    /\ \E t \in DOMAIN polledPayments : t \notin DOMAIN copy
    /\ \A u \in DOMAIN copy :
        u \in DOMAIN polledPayments /\ polledPayments[u] = copy[u]

(***************************************************************************)
(* C21.  Every step that finishes the processing of an entry of the copy  *)
(* (a failed fetch, an invoice found paid, an expired entry, a failed     *)
(* lookup, no transaction found, a failed or successful save) takes the   *)
(* pass to time.Sleep(pollCheckGap) before the next entry, so that the    *)
(* block explorers are never asked about one entry right after they were  *)
(* asked about another.  The copy holds at most the two tokens, so when   *)
(* the lookup of one is about to be made and the lookup of the other has  *)
(* failed in this pass, the other was the entry processed just before.    *)
(***************************************************************************)
C21_SleepAfterEveryEntry ==
    /\ [][(pc \in {"fetch", "expiry", "oracle", "update"}
              /\ cur' = NoToken /\ pc' # "stopped")
            => pc' = "gap"]_vars
    /\ [](pc = "oracle" =>
            \A u \in queried \ {cur} : outcome[u] \in {"unsat", "settled"})

(***************************************************************************)
(* C22.  Every token on the removal list of a pass is a key of the copy   *)
(* the pass was given, also in the expired branch, which appends the      *)
(* Token field of the fetched invoice: GetInvoiceByToken selects the      *)
(* record by the key asked for, so the two are the same token.  The       *)
(* delete loop therefore deletes no entry whose token was not in the copy *)
(* of that cycle.                                                          *)
(***************************************************************************)
C22_RemovalListWithinCopy ==
    /\ [](\A i \in DOMAIN tokensToRemove : tokensToRemove[i] \in DOMAIN copy)
    /\ [](pc \in {"expiry", "oracle", "update"} => invoice.Token = cur)
    /\ [][RemovalsApplied =>
            \A t \in DOMAIN polledPayments :
                t \notin DOMAIN copy => t \in DOMAIN polledPayments']_vars

\* The pass is over: the copy held one token only, the pass found its
\* entry expired and listed the Token of the fetched invoice, and since the
\* copy was taken a handler inserted the other token, which the delete loop
\* is about to leave alone.
C22_Witness ==
    /\ pc = "delete"
    /\ \E t \in Tokens : \E u \in Tokens \ {t} :
        /\ DOMAIN copy = {t}
        /\ outcome[t] = "expired"
        /\ tokensToRemove = <<t>>
        /\ u \in DOMAIN polledPayments

(***************************************************************************)
(* C23.  When GetInvoices fails at startup, with the shutdown sentinel or *)
(* any other error, initPaymentChecker returns that error with the lock   *)
(* released and the pool empty, and the goroutine of the driver is never  *)
(* started: nothing moves the poller or the pool from then on.  The       *)
(* goroutine is started only by the seeding loop after GetInvoices        *)
(* returned no error, and once started it is never started again.         *)
(***************************************************************************)
C23_FailedInitNeverLaunches ==
    /\ [][(pc = "seed" /\ pc' # "seed" /\ initErr' # ErrNil) =>
            /\ pc' = "initfailed"
            /\ initErr' \in {ErrShutdown, ErrOther}
            /\ polledPayments' = EmptyPool
            /\ mutexW' = "none"]_vars
    /\ [](pc = "initfailed" =>
            (initErr # ErrNil /\ polledPayments = EmptyPool /\ copy = EmptyPool))
    /\ [][pc = "initfailed" => UNCHANGED <<pollerVars, poolVars>>]_vars
    /\ [](Launched => initErr = ErrNil)
    /\ [][(~Launched /\ Launched') => (pc = "seedloop" /\ pc' = "snapshot")]_vars
    /\ [][Launched => Launched']_vars

\* GetInvoices failed with an error other than the shutdown sentinel; time
\* has passed since, the pool is empty and no goroutine polls.
C23_Witness ==
    /\ pc = "initfailed"
    /\ initErr = ErrOther
    /\ now = MaxTime
    /\ polledPayments = EmptyPool
    /\ ~ENABLED checkForPayments

====
